---- MODULE Spec2Model ----
(***************************************************************************)
(* zod-to-ts: conversion of zod schema instances to TypeScript type nodes  *)
(* (src/src/index.ts).                                                     *)
(*                                                                         *)
(* The heap `zods` holds the schema instances a caller has built; an       *)
(* instance is addressed by its index, which stands for JavaScript object  *)
(* identity.  The operations are withGetType (the caller attaches a        *)
(* getType function to an instance), zodToTs (one schema) and              *)
(* zodToTsMultiple (a mapping of named root schemas).                      *)
(***************************************************************************)
EXTENDS Integers, Sequences, FiniteSets, TLC

VARIABLES
    zods,       \* the schema instances: index -> [typeName, kids, keys, values, description, getType]
    call,       \* the latest operation and its arguments, with the heap it was called on
    out,        \* what that operation returned (or how it ended)
    installs,   \* withGetType calls the caller may still make
    multiples   \* zodToTsMultiple calls the caller may still make

vars == <<zods, call, out, installs, multiples>>

\* Bounds of the model.
MaxInstalls == 1
MaxMultiple == 2

(***************************************************************************)
(* TypeScript nodes (ts.factory).  Every node is a record of one shape:    *)
(*   kind   ts.SyntaxKind                                                  *)
(*   text   identifier / literal text                                      *)
(*   mod    "?" (questionToken), "..." (dotDotDotToken) or ""              *)
(*   doc    JSDoc comment attached by addJsDocComment                      *)
(*   kids   the node's child nodes other than `types`                      *)
(*   types  the `types` property: the members of a union or intersection   *)
(*          type (on any other node the property is a stray one that the   *)
(*          ZodDefault case may set and nothing reads)                     *)
(***************************************************************************)
Node(kind, text, kids) ==
    [kind |-> kind, text |-> text, mod |-> "", doc |-> "", kids |-> kids, types |-> <<>>]

\* `null`: callGetType's result when the instance carries no getType.
Null == Node("null", "", <<>>)
\* Placeholder for "no node": the call did not return.
NoNode == Node("(none)", "", <<>>)

createIdentifier(text) == Node("Identifier", text, <<>>)
createKeywordTypeNode(kind) == Node(kind, "", <<>>)
createTypeReferenceNode(name, typeArguments) == Node("TypeReference", name, typeArguments)
createLiteralTypeNode(literal) == Node("LiteralType", "", <<literal>>)
createNull == Node("NullKeyword", "", <<>>)
createTrue == Node("TrueKeyword", "", <<>>)
createFalse == Node("FalseKeyword", "", <<>>)
createNumericLiteral(text) == Node("NumericLiteral", text, <<>>)
createStringLiteral(text) == Node("StringLiteral", text, <<>>)
createUnionTypeNode(types) == [Node("UnionType", "", <<>>) EXCEPT !.types = types]
createIntersectionTypeNode(types) == [Node("IntersectionType", "", <<>>) EXCEPT !.types = types]
createTypeLiteralNode(members) == Node("TypeLiteral", "", members)
createPropertySignature(name, questionToken, type) ==
    [Node("PropertySignature", name, <<type>>) EXCEPT !.mod = IF questionToken THEN "?" ELSE ""]
createArrayTypeNode(elementType) == Node("ArrayType", "", <<elementType>>)
createTupleTypeNode(elements) == Node("TupleType", "", elements)
createParameterDeclaration(dotDotDotToken, name, type) ==
    [Node("Parameter", name, <<type>>) EXCEPT !.mod = IF dotDotDotToken THEN "..." ELSE ""]
createIndexSignature(parameters, type) == Node("IndexSignature", "", parameters \o <<type>>)
createFunctionTypeNode(parameters, type) == Node("FunctionType", "", parameters \o <<type>>)
createEnumMember(name, initializer) == Node("EnumMember", name, <<initializer>>)
createEnumDeclaration(name, members) == Node("EnumDeclaration", name.text, members)
createTypeAliasDeclaration(name, type) == Node("TypeAliasDeclaration", name.text, <<type>>)

isIdentifier(node) == node.kind = "Identifier"

\* node.forEachChild: the children ts visits, in order.
forEachChild(node) ==
    CASE node.kind \in {"UnionType", "IntersectionType"} -> node.types
      [] node.kind = "TypeReference" -> <<createIdentifier(node.text)>> \o node.kids
      [] OTHER -> node.kids

\* ./utils (not among the sources): the helpers index.ts imports.
createUnknownKeywordNode == createKeywordTypeNode("UnknownKeyword")
createTypeReferenceFromString(identifier) == createTypeReferenceNode(identifier, <<>>)
maybeIdentifierToTypeReference(identifier) ==
    IF isIdentifier(identifier) THEN createTypeReferenceNode(identifier.text, <<>>) ELSE identifier
getIdentifierOrStringLiteral(key) == key
addJsDocComment(node, text) == [node EXCEPT !.doc = text]

(***************************************************************************)
(* Schema instances.  getType is the instance's own `getType` property:    *)
(*   fn "none"   the property is absent                                    *)
(*   fn "const"  a function returning `result` (an Identifier or a type    *)
(*               node) whatever it is passed                               *)
(*   fn "echo"   (ts, identifier) => ts.factory.createIdentifier(identifier)*)
(***************************************************************************)
NoGetType == [fn |-> "none", result |-> Null]
constGetType(result) == [fn |-> "const", result |-> result]
echoGetType == [fn |-> "echo", result |-> Null]

\* A value of a literal, an enum or a native enum: `type` is its typeof.
Value(key, type, text) == [key |-> key, type |-> type, text |-> text]

Zod(typeName, kids) ==
    [typeName |-> typeName, kids |-> kids, keys |-> <<>>, values |-> <<>>,
     description |-> "", getType |-> NoGetType]
ZodObject(keys, kids) == [Zod("ZodObject", kids) EXCEPT !.keys = keys]
ZodValues(typeName, values) == [Zod(typeName, <<>>) EXCEPT !.values = values]
describe(zod, description) == [zod EXCEPT !.description = description]

\* ./utils withGetType: sets the instance's getType, and nothing else.
withGetType(h, z, getType) == [h EXCEPT ![z].getType = getType]

(***************************************************************************)
(* zod (the validation library).  isOptional() is safeParse(undefined)     *)
(* .success: whether the schema accepts `undefined`.  A refinement or      *)
(* transform of a ZodEffects is taken to accept what its inner schema      *)
(* accepts, a default value to be valid for its inner schema.  `seen`      *)
(* guards the recursion.                                                   *)
(***************************************************************************)
RECURSIVE accepts(_, _, _)
accepts(h, z, seen) ==
    LET zod == h[z]
        into == seen \cup {z}
    IN  IF z \in seen THEN FALSE
        ELSE CASE zod.typeName \in {"ZodOptional", "ZodUndefined", "ZodAny", "ZodUnknown",
                                    "ZodVoid", "ZodDefault", "ZodCatch"} -> TRUE
               [] zod.typeName = "ZodLiteral" -> zod.values[1].type = "undefined"
               [] zod.typeName \in {"ZodNullable", "ZodEffects", "ZodBranded", "ZodLazy"} ->
                      accepts(h, zod.kids[1], into)
               [] zod.typeName = "ZodUnion" ->
                      \E i \in 1..Len(zod.kids) : accepts(h, zod.kids[i], into)
               [] zod.typeName = "ZodIntersection" ->
                      \A i \in 1..Len(zod.kids) : accepts(h, zod.kids[i], into)
               [] OTHER -> FALSE

isOptional(h, z) == accepts(h, z, {})

\* Whether this zod version gives the wrapper an unwrap() method (zod 3.20.6:
\* ZodOptional, ZodNullable and ZodBranded do; ZodDefault has removeDefault()
\* and ZodPromise has none).
hasUnwrap(typeName) == typeName \in {"ZodBranded", "ZodNullable", "ZodOptional"}

(***************************************************************************)
(* index.ts                                                                *)
(***************************************************************************)
\* `undefined` passed for the optional identifier argument.
Undefined == "(undefined)"

\* callGetType as it would be if it did not find getType on the instance.
callGetTypeUnset(zod, identifier, options) == Null

callGetType(zod, identifier, options) ==
    CASE zod.getType.fn = "none" -> Null
      [] zod.getType.fn = "echo" -> createIdentifier(identifier)
      [] OTHER -> zod.getType.result

\* raw: the set of <<option, value>> pairs the caller gave ({} for undefined).
resolveOptions(raw) ==
    [resolveNativeEnums |->
        IF \E p \in raw : p[1] = "resolveNativeEnums"
        THEN (CHOOSE p \in raw : p[1] = "resolveNativeEnums")[2]
        ELSE TRUE]

\* How a call of zodToTsNode ended: status "ok" (it returned `node`), "Error"
\* (thrown by the ZodNativeEnum case) or "RangeError" (the recursion re-entered
\* an instance it was already mapping, which it then does without end until
\* the call stack is exhausted).  `store` is store.nativeEnums
\* as the call left it.  `visits` is a history of the calls of zodToTsNode this
\* call made, itself first, in call order.
Returned(node, store, visits) ==
    [status |-> "ok", node |-> node, store |-> store, visits |-> visits]
Aborted(status, store, visits) ==
    [status |-> status, node |-> NoNode, store |-> store, visits |-> visits]

Visit(z, zod, depth, before, r) ==
    [id |-> z, zod |-> zod, depth |-> depth, status |-> r.status, node |-> r.node,
     before |-> before, after |-> r.store]

\* The children the kind's case of zodToTsNode maps, in the order it maps them.
mappedChildren(h, zod) ==
    CASE zod.typeName \in {"ZodObject", "ZodArray", "ZodUnion", "ZodDiscriminatedUnion",
                           "ZodEffects", "ZodOptional", "ZodNullable", "ZodTuple", "ZodSet",
                           "ZodIntersection", "ZodPromise", "ZodDefault"} -> zod.kids
      [] zod.typeName = "ZodRecord" -> <<zod.kids[2]>>
      [] zod.typeName = "ZodMap" -> <<zod.kids[2], zod.kids[1]>>
      [] zod.typeName = "ZodFunction" -> h[zod.kids[1]].kids \o <<zod.kids[2]>>
      [] OTHER -> <<>>

literalOfValue(value) ==
    CASE value.type = "number" -> createNumericLiteral(value.text)
      [] value.type = "boolean" -> IF value.text = "true" THEN createTrue ELSE createFalse
      [] OTHER -> createStringLiteral(value.text)

enumMemberOfValue(value) ==
    createEnumMember(getIdentifierOrStringLiteral(value.key),
                     IF value.type = "number" THEN createNumericLiteral(value.text)
                     ELSE createStringLiteral(value.text))

\* case 'ZodDefault' as it would be without the filter.
defaultOfUnfiltered(type) == [type EXCEPT !.types = forEachChild(type)]

\* case 'ZodDefault': the children of the mapped inner type other than the
\* undefined keyword become its `types`.
defaultOf(type) ==
    LET filteredNodes == SelectSeq(forEachChild(type), LAMBDA node : node.kind # "UndefinedKeyword")
    IN  [type EXCEPT !.types = filteredNodes]

\* case 'ZodNativeEnum' as it would be if it returned what getType returns
\* instead of throwing.
nativeEnumOfLenient(zod, getTypeType, store, options) ==
    LET enumMembers == [i \in 1..Len(zod.values) |-> enumMemberOfValue(zod.values[i])]
    IN  IF getTypeType = Null THEN Returned(createUnknownKeywordNode, store, <<>>)
        ELSE IF options.resolveNativeEnums /\ isIdentifier(getTypeType)
             THEN Returned(maybeIdentifierToTypeReference(getTypeType),
                           Append(store, createEnumDeclaration(getTypeType, enumMembers)), <<>>)
        ELSE Returned(maybeIdentifierToTypeReference(getTypeType), store, <<>>)

\* case 'ZodNativeEnum' as it would be if it kept one declaration of an enum.
nativeEnumOfOnce(zod, getTypeType, store, options) ==
    LET enumMembers == [i \in 1..Len(zod.values) |-> enumMemberOfValue(zod.values[i])]
        declared == \E i \in 1..Len(store) : store[i] = createEnumDeclaration(getTypeType, enumMembers)
    IN  IF getTypeType = Null THEN Returned(createUnknownKeywordNode, store, <<>>)
        ELSE IF ~options.resolveNativeEnums
             THEN Returned(maybeIdentifierToTypeReference(getTypeType), store, <<>>)
        ELSE IF isIdentifier(getTypeType)
             THEN Returned(maybeIdentifierToTypeReference(getTypeType),
                           IF declared THEN store
                           ELSE Append(store, createEnumDeclaration(getTypeType, enumMembers)), <<>>)
        ELSE Aborted("Error", store, <<>>)

\* case 'ZodNativeEnum'
nativeEnumOf(zod, getTypeType, store, options) ==
    LET enumMembers == [i \in 1..Len(zod.values) |-> enumMemberOfValue(zod.values[i])]
    IN  IF getTypeType = Null THEN Returned(createUnknownKeywordNode, store, <<>>)
        ELSE IF ~options.resolveNativeEnums
             THEN Returned(maybeIdentifierToTypeReference(getTypeType), store, <<>>)
        ELSE IF isIdentifier(getTypeType)
             THEN Returned(maybeIdentifierToTypeReference(getTypeType),
                           Append(store, createEnumDeclaration(getTypeType, enumMembers)), <<>>)
        ELSE Aborted("Error", store, <<>>)

\* The node a kind's case builds from its mapped children `t` (in the order of
\* mappedChildren).
nodeOfKind(h, zod, identifier, t) ==
    LET typeName == zod.typeName
        member(i) ==
            LET nextZodNode == h[zod.kids[i]]
                isOpt == nextZodNode.typeName = "ZodOptional" \/ isOptional(h, zod.kids[i])
                propertySignature ==
                    createPropertySignature(getIdentifierOrStringLiteral(zod.keys[i]), isOpt, t[i])
            IN  IF nextZodNode.description # ""
                THEN addJsDocComment(propertySignature, nextZodNode.description)
                ELSE propertySignature
        arity == Len(t) - 1
        argTypes == [i \in 1..arity |->
                        createParameterDeclaration(FALSE, "args_" \o ToString(i - 1), t[i])]
    IN  CASE typeName = "ZodString" -> createKeywordTypeNode("StringKeyword")
          [] typeName = "ZodNumber" -> createKeywordTypeNode("NumberKeyword")
          [] typeName = "ZodBigInt" -> createKeywordTypeNode("BigIntKeyword")
          [] typeName = "ZodBoolean" -> createKeywordTypeNode("BooleanKeyword")
          [] typeName = "ZodDate" -> createTypeReferenceNode("Date", <<>>)
          [] typeName = "ZodUndefined" -> createKeywordTypeNode("UndefinedKeyword")
          [] typeName = "ZodNull" -> createLiteralTypeNode(createNull)
          [] typeName = "ZodVoid" ->
                createUnionTypeNode(<<createKeywordTypeNode("VoidKeyword"),
                                      createKeywordTypeNode("UndefinedKeyword")>>)
          [] typeName = "ZodAny" -> createKeywordTypeNode("AnyKeyword")
          [] typeName = "ZodUnknown" -> createUnknownKeywordNode
          [] typeName = "ZodNever" -> createKeywordTypeNode("NeverKeyword")
          [] typeName = "ZodLazy" -> createTypeReferenceFromString(identifier)
          [] typeName = "ZodLiteral" -> createLiteralTypeNode(literalOfValue(zod.values[1]))
          [] typeName = "ZodObject" ->
                createTypeLiteralNode([i \in 1..Len(zod.kids) |-> member(i)])
          [] typeName = "ZodArray" -> createArrayTypeNode(t[1])
          [] typeName = "ZodEnum" ->
                createUnionTypeNode([i \in 1..Len(zod.values) |->
                                        createStringLiteral(zod.values[i].text)])
          [] typeName \in {"ZodUnion", "ZodDiscriminatedUnion"} -> createUnionTypeNode(t)
          [] typeName = "ZodEffects" -> t[1]
          [] typeName = "ZodOptional" ->
                createUnionTypeNode(<<t[1], createKeywordTypeNode("UndefinedKeyword")>>)
          [] typeName = "ZodNullable" ->
                createUnionTypeNode(<<t[1], createLiteralTypeNode(createNull)>>)
          [] typeName = "ZodTuple" -> createTupleTypeNode(t)
          [] typeName = "ZodRecord" ->
                createTypeLiteralNode(<<createIndexSignature(
                    <<createParameterDeclaration(FALSE, "x", createKeywordTypeNode("StringKeyword"))>>,
                    t[1])>>)
          [] typeName = "ZodMap" -> createTypeReferenceNode("Map", <<t[2], t[1]>>)
          [] typeName = "ZodSet" -> createTypeReferenceNode("Set", <<t[1]>>)
          [] typeName = "ZodIntersection" -> createIntersectionTypeNode(<<t[1], t[2]>>)
          [] typeName = "ZodPromise" -> createTypeReferenceNode("Promise", <<t[1]>>)
          [] typeName = "ZodFunction" ->
                createFunctionTypeNode(
                    Append(argTypes,
                           createParameterDeclaration(TRUE, "args_" \o ToString(Len(argTypes)),
                                                      createArrayTypeNode(createUnknownKeywordNode))),
                    t[Len(t)])
          [] typeName = "ZodDefault" -> defaultOf(t[1])
          [] OTHER -> createKeywordTypeNode("AnyKeyword")

RECURSIVE zodToTsNode(_, _, _, _, _, _)
RECURSIVE mapEach(_, _, _, _, _, _)

\* items.map(item => zodToTsNode(item, ...otherArgs)): the items in order, the
\* store threaded through; the first call that does not return ends it.
mapRest(first, rest) ==
    [status |-> rest.status, nodes |-> <<first.node>> \o rest.nodes,
     store |-> rest.store, visits |-> first.visits \o rest.visits]

mapFrom(h, items, identifier, options, stack, first) ==
    IF first.status # "ok"
    THEN [status |-> first.status, nodes |-> <<>>, store |-> first.store, visits |-> first.visits]
    ELSE mapRest(first, mapEach(h, Tail(items), identifier, first.store, options, stack))

mapEach(h, items, identifier, store, options, stack) ==
    IF items = <<>> THEN [status |-> "ok", nodes |-> <<>>, store |-> store, visits |-> <<>>]
    ELSE mapFrom(h, items, identifier, options, stack,
                 zodToTsNode(h, Head(items), identifier, store, options, stack))

\* The kind's case, its children mapped.
caseOf(h, zod, identifier, mapped) ==
    IF mapped.status # "ok" THEN Aborted(mapped.status, mapped.store, mapped.visits)
    ELSE Returned(nodeOfKind(h, zod, identifier, mapped.nodes), mapped.store, mapped.visits)

visited(z, zod, depth, before, r) ==
    [r EXCEPT !.visits = <<Visit(z, zod, depth, before, r)>> \o r.visits]

\* stack: the instances whose zodToTsNode calls are on the call stack.
zodToTsNode(h, z, identifier, store, options, stack) ==
    LET zod == h[z]
        typeName == zod.typeName
        getTypeType == callGetType(zod, identifier, options)
    IN  visited(z, zod, Cardinality(stack), store,
            IF getTypeType # Null /\ typeName # "ZodNativeEnum"
            THEN Returned(maybeIdentifierToTypeReference(getTypeType), store, <<>>)
            ELSE IF z \in stack THEN Aborted("RangeError", store, <<>>)
            ELSE IF typeName = "ZodNativeEnum"
                 THEN nativeEnumOf(zod, getTypeType, store, options)
            ELSE caseOf(h, zod, identifier,
                        mapEach(h, mappedChildren(h, zod), identifier, store, options,
                                stack \cup {z})))

zodToTs(h, z, identifier, options) ==
    LET resolvedIdentifier == IF identifier = Undefined THEN "Identifier" ELSE identifier
        resolvedOptions == resolveOptions(options)
    IN  zodToTsNode(h, z, resolvedIdentifier, <<>>, resolvedOptions, {})

\* The children recursiveWithGetType descends into, in order.
traversedChildren(zod) ==
    CASE zod.typeName \in {"ZodArray", "ZodEffects", "ZodSet"} -> <<zod.kids[1]>>
      [] zod.typeName \in {"ZodUnion", "ZodDiscriminatedUnion", "ZodTuple", "ZodRecord", "ZodMap",
                           "ZodIntersection", "ZodFunction", "ZodObject"} -> zod.kids
      [] zod.typeName \in {"ZodBranded", "ZodNullable", "ZodOptional", "ZodDefault", "ZodPromise"} ->
            IF hasUnwrap(zod.typeName) THEN <<zod.kids[1]>> ELSE <<>>
      [] OTHER -> <<>>

RECURSIVE recursiveWithGetType(_, _, _, _)
RECURSIVE traverseEach(_, _, _, _)

\* The recursive calls of one case, in order; a call that does not return ends it.
traverseFrom(items, identifiersByType, stack, first) ==
    IF first.status # "ok" THEN first
    ELSE traverseEach(first.zods, Tail(items), identifiersByType, stack)

traverseEach(h, items, identifiersByType, stack) ==
    IF items = <<>> THEN [status |-> "ok", zods |-> h]
    ELSE traverseFrom(items, identifiersByType, stack,
                      recursiveWithGetType(h, Head(items), identifiersByType, stack))

\* The has-check as it would be if the map were keyed by structure: an
\* instance is known if a registered one has its kind and payload.
markKnownByStructure(h, z, identifiersByType) ==
    LET bare(zod) == [zod EXCEPT !.getType = NoGetType]
        alike == {x \in DOMAIN identifiersByType : bare(h[x]) = bare(h[z])}
    IN  IF alike # {}
        THEN withGetType(h, z, constGetType(identifiersByType[CHOOSE x \in alike : TRUE]))
        ELSE h

\* The has-check as it would be without the check: every instance the
\* traversal comes upon is given getType, an unregistered one that of the
\* first root.
markKnownOrNot(h, z, identifiersByType) ==
    withGetType(h, z, constGetType(
        IF z \in DOMAIN identifiersByType THEN identifiersByType[z]
        ELSE identifiersByType[CHOOSE x \in DOMAIN identifiersByType : TRUE]))

\* identifiersByType: instance -> Identifier.  stack: the instances whose calls
\* are on the call stack; a call for one of them recurses without end.
markKnown(h, z, identifiersByType) ==
    IF z \in DOMAIN identifiersByType
    THEN withGetType(h, z, constGetType(identifiersByType[z]))
    ELSE h

traverseMarked(marked, z, identifiersByType, stack) ==
    IF z \in stack THEN [status |-> "RangeError", zods |-> marked]
    ELSE traverseEach(marked, traversedChildren(marked[z]), identifiersByType, stack \cup {z})

recursiveWithGetType(h, z, identifiersByType, stack) ==
    traverseMarked(markKnown(h, z, identifiersByType), z, identifiersByType, stack)

\* Object.assign(Object.create(Object.getPrototypeOf(zodType)), zodType) and
\* delete clone['getType']: a new instance, at the index after the last, with
\* the own properties of zodType but getType.
cloneWithoutGetType(h, z) == Append(h, [h[z] EXCEPT !.getType = NoGetType])

\* stores.reduce((previous, current) => [...previous, ...current]), of one
\* store or more.
RECURSIVE reduceStores(_)
reduceStores(stores) ==
    IF Len(stores) = 1 THEN stores[1]
    ELSE reduceStores(SubSeq(stores, 1, Len(stores) - 1)) \o stores[Len(stores)]

\* new Map of the <<value, key>> entries: instance -> Identifier, a later entry
\* of the same instance replacing an earlier one.
identifiersByTypeOf(typesByIdentifier) ==
    LET n == Len(typesByIdentifier)
    IN  [z \in {typesByIdentifier[i][2] : i \in 1..n} |->
            typesByIdentifier[CHOOSE i \in 1..n :
                /\ typesByIdentifier[i][2] = z
                /\ \A j \in 1..n : typesByIdentifier[j][2] = z => j <= i][1]]

\* The callback of [...typesByIdentifier.entries()].map: one root's result.
resultOf(marked, entry, options, converted) ==
    [identifier |-> entry[1], status |-> converted.status,
     typeAlias |-> createTypeAliasDeclaration(entry[1], converted.node),
     store |-> converted.store, visits |-> converted.visits]

convertRoot(marked, entry, options) ==
    resultOf(marked, entry, options,
             zodToTs(cloneWithoutGetType(marked, entry[2]), Len(marked) + 1, Undefined, options))

\* What zodToTsMultiple returns, or how it ends: `all` are the results of the
\* roots, of which those after the first that did not return were never computed.
returnOf(traversed, all, failed) ==
    LET firstFailed == CHOOSE i \in failed : \A j \in failed : i <= j
        unfinished(status, results) ==
            [status |-> status, zods |-> traversed.zods, typeAliases |-> <<>>, store |-> <<>>,
             results |-> results]
    IN  IF traversed.status # "ok" THEN unfinished(traversed.status, <<>>)
        ELSE IF failed # {} THEN unfinished(all[firstFailed].status, SubSeq(all, 1, firstFailed))
        \* reduce without an initial value, of an empty array
        ELSE IF all = <<>> THEN unfinished("TypeError", <<>>)
        ELSE [status |-> "ok", zods |-> traversed.zods,
              typeAliases |-> [i \in 1..Len(all) |-> all[i].typeAlias],
              store |-> reduceStores([i \in 1..Len(all) |-> all[i].store]),
              results |-> all]

convertRoots(traversed, typesByIdentifier, options) ==
    IF traversed.status # "ok" THEN <<>>
    ELSE [i \in 1..Len(typesByIdentifier) |->
            convertRoot(traversed.zods, typesByIdentifier[i], options)]

statusesOf(traversed, all) ==
    returnOf(traversed, all, {i \in 1..Len(all) : all[i].status # "ok"})

traverseRoots(h, typesByIdentifier) ==
    traverseEach(h, [i \in 1..Len(typesByIdentifier) |-> typesByIdentifier[i][2]],
                 identifiersByTypeOf(typesByIdentifier), {})

convertTraversed(traversed, typesByIdentifier, options) ==
    statusesOf(traversed, convertRoots(traversed, typesByIdentifier, options))

\* objectGraph: the entries of the caller's object, <<key, instance>>, in
\* insertion order.
typesByIdentifierOf(objectGraph) ==
    [i \in 1..Len(objectGraph) |-> <<createIdentifier(objectGraph[i][1]), objectGraph[i][2]>>]

zodToTsMultiple(h, objectGraph, options) ==
    convertTraversed(traverseRoots(h, typesByIdentifierOf(objectGraph)),
                     typesByIdentifierOf(objectGraph), options)

(***************************************************************************)
(* The schemas a caller builds.  Each is a heap of instances as zod's      *)
(* constructors leave them (no getType); an instance's kids are indices    *)
(* into the same heap.                                                     *)
(***************************************************************************)
\* Two roots sharing an instance, beside a second instance of the same structure.
SharedSchemas ==
    << describe(Zod("ZodString", <<>>), "the name"),     \* 1  z.string().describe(..)
       ZodObject(<<"name">>, <<1>>),                       \* 2  z.object({name: 1})
       ZodObject(<<"name">>, <<1>>),                       \* 3  z.object({name: 1}), built again
       Zod("ZodTuple", <<2, 3>>) >>                        \* 4  z.tuple([2, 3])

\* Graphs with cycles: an instance that is its own property, a cycle closed by
\* z.lazy, and a cycle that passes through a ZodDefault.
CyclicSchemas ==
    << ZodObject(<<"self">>, <<1>>),                       \* 1  shape.self is 1 itself
       Zod("ZodLazy", <<3>>),                              \* 2  z.lazy(() => 3)
       ZodObject(<<"next">>, <<2>>),                       \* 3  z.object({next: 2})
       Zod("ZodDefault", <<5>>),                           \* 4  5.default(..)
       ZodObject(<<"again">>, <<4>>) >>                    \* 5  z.object({again: 4})

\* A native enum reached from several places.
EnumSchemas ==
    << ZodValues("ZodNativeEnum", << Value("Apple", "string", "apple"),
                                     Value("Banana", "number", "1") >>),   \* 1
       Zod("ZodTuple", <<1, 1>>),                          \* 2  z.tuple([1, 1])
       Zod("ZodOptional", <<1>>),                          \* 3  1.optional()
       ZodObject(<<"basket", "fruit">>, <<2, 3>>) >>       \* 4  z.object({basket: 2, fruit: 3})

\* Defaults of optionals.
OptionalSchemas ==
    << Zod("ZodString", <<>>),                             \* 1
       Zod("ZodOptional", <<1>>),                          \* 2  1.optional()
       Zod("ZodOptional", <<2>>),                          \* 3  2.optional()
       Zod("ZodDefault", <<2>>),                           \* 4  2.default(..)
       Zod("ZodDefault", <<3>>) >>                         \* 5  3.default(..)

\* Defaults of types with several undefined members, or with none.
UndefinedSchemas ==
    << Zod("ZodUndefined", <<>>),                          \* 1
       Zod("ZodArray", <<1>>),                             \* 2  z.array(1)
       Zod("ZodUnion", <<1, 2, 1>>),                       \* 3  z.union([1, 2, 1])
       Zod("ZodDefault", <<3>>),                           \* 4  3.default(..)
       Zod("ZodDefault", <<2>>) >>                         \* 5  2.default(..)

FunctionSchemas ==
    << Zod("ZodString", <<>>),                             \* 1
       Zod("ZodNumber", <<>>),                             \* 2
       Zod("ZodTuple", <<1, 2>>),                          \* 3  z.tuple([1, 2])
       Zod("ZodVoid", <<>>),                               \* 4
       Zod("ZodFunction", <<3, 4>>) >>                     \* 5  z.function(3, 4)

ContainerSchemas ==
    << ZodValues("ZodEnum", << Value("", "string", "a"), Value("", "string", "b") >>),  \* 1
       ZodValues("ZodLiteral", << Value("", "boolean", "false") >>),                    \* 2
       Zod("ZodRecord", <<1, 2>>),                         \* 3  z.record(1, 2)
       Zod("ZodMap", <<1, 2>>),                            \* 4  z.map(1, 2)
       Zod("ZodIntersection", <<3, 4>>) >>                 \* 5  z.intersection(3, 4)

WrapperSchemas ==
    << Zod("ZodDate", <<>>),                               \* 1
       Zod("ZodNullable", <<1>>),                          \* 2  1.nullable()
       Zod("ZodEffects", <<2>>),                           \* 3  2.refine(..)
       Zod("ZodPromise", <<3>>),                           \* 4  z.promise(3)
       Zod("ZodSet", <<4>>) >>                             \* 5  z.set(4)

\* Kinds zodToTsNode has no case for, and a discriminated union.
OtherSchemas ==
    << ZodValues("ZodLiteral", << Value("", "string", "a") >>),   \* 1
       ZodObject(<<"kind">>, <<1>>),                       \* 2  z.object({kind: 1})
       Zod("ZodDiscriminatedUnion", <<2>>),                \* 3  z.discriminatedUnion("kind", [2])
       Zod("ZodBranded", <<3>>),                           \* 4  3.brand()
       Zod("ZodCatch", <<4>>) >>                           \* 5  4.catch(..)

\* Keywords and a number literal.
PrimitiveSchemas ==
    << Zod("ZodBigInt", <<>>),                             \* 1
       Zod("ZodBoolean", <<>>),                            \* 2
       Zod("ZodNull", <<>>),                               \* 3
       ZodValues("ZodLiteral", << Value("", "number", "1") >>),   \* 4  z.literal(1)
       Zod("ZodNever", <<>>),                              \* 5
       Zod("ZodUnion", <<1, 2, 3, 4, 5>>) >>               \* 6  z.union([1, 2, 3, 4, 5])

Schemas ==
    { SharedSchemas, CyclicSchemas, EnumSchemas, OptionalSchemas, UndefinedSchemas,
      FunctionSchemas, ContainerSchemas, WrapperSchemas, OtherSchemas, PrimitiveSchemas }

\* The names a caller gives roots; "Identifier" is also zodToTs's default identifier.
Names == {"A", "Identifier"}

\* The getType functions a caller attaches.
GetTypes ==
    { constGetType(createIdentifier("E")),
      constGetType(createKeywordTypeNode("NumberKeyword")),
      echoGetType }

\* The options argument: undefined, or {resolveNativeEnums: false}.
Options == { {}, {<<"resolveNativeEnums", FALSE>>} }

\* The objects a caller passes to zodToTsMultiple: entries with distinct keys.
ObjectGraphs(h) ==
    LET entries == Names \X (1..Len(h))
    IN  {<<>>} \cup {<<e>> : e \in entries}
               \cup {<<e, g>> : <<e, g>> \in {p \in entries \X entries : p[1][1] # p[2][1]}}

NoCall == [op |-> "none"]
NoOut == [status |-> "none"]

Init ==
    /\ zods \in Schemas
    /\ call = NoCall
    /\ out = NoOut
    /\ installs = MaxInstalls
    /\ multiples = 1

\* A session in which zodToTsMultiple is called more than once on the same instances.
InitRepeated ==
    /\ zods = SharedSchemas
    /\ call = NoCall
    /\ out = NoOut
    /\ installs = MaxInstalls
    /\ multiples = MaxMultiple

\* The caller attaches getType to an instance while building its schemas.
WithGetType(z, getType) ==
    /\ installs > 0
    /\ call = NoCall
    /\ zods' = withGetType(zods, z, getType)
    /\ installs' = installs - 1
    /\ UNCHANGED <<call, out, multiples>>

ZodToTs(z, identifier, options) ==
    /\ call' = [op |-> "zodToTs", zod |-> z, identifier |-> identifier, options |-> options,
                zods |-> zods]
    /\ out' = zodToTs(zods, z, identifier, options)
    /\ UNCHANGED <<zods, installs, multiples>>

ZodToTsMultiple(objectGraph, options) ==
    /\ multiples > 0
    /\ multiples' = multiples - 1
    /\ LET returned == zodToTsMultiple(zods, objectGraph, options)
       IN  /\ call' = [op |-> "zodToTsMultiple", objectGraph |-> objectGraph,
                       options |-> options, zods |-> zods]
           /\ out' = returned
           /\ zods' = returned.zods
    /\ UNCHANGED installs

Next ==
    \/ \E z \in 1..Len(zods), getType \in GetTypes : WithGetType(z, getType)
    \/ \E z \in 1..Len(zods), identifier \in {Undefined, "A"}, options \in Options :
          ZodToTs(z, identifier, options)
    \/ \E objectGraph \in ObjectGraphs(zods), options \in Options :
          ZodToTsMultiple(objectGraph, options)

Spec == Init /\ [][Next]_vars

SpecRepeated == InitRepeated /\ [][Next]_vars

(***************************************************************************)
(* Properties.  `call.zods` is the heap a call was made on, `out` what it  *)
(* returned, `zods` the heap it left.                                       *)
(***************************************************************************)
IsSingle == call.op = "zodToTs"
IsMultiple == call.op = "zodToTsMultiple"

\* The identifier zodToTsNode was passed in the latest call.
PassedIdentifier ==
    IF IsSingle /\ call.identifier # Undefined THEN call.identifier ELSE "Identifier"

ResolvesNativeEnums == call.options = {}

\* The visit histories of the latest call: one of zodToTs, one per converted
\* root of zodToTsMultiple.
Histories ==
    CASE IsSingle -> {out.visits}
      [] IsMultiple -> {out.results[i].visits : i \in 1..Len(out.results)}
      [] OTHER -> {}

Reference(name) == Node("TypeReference", name, <<>>)

\* A bare type reference of that name (whatever stray `types` it was given).
IsReferenceTo(name, node) ==
    node.kind = "TypeReference" /\ node.text = name /\ node.kids = <<>>

\* The nodes ts prints below a node: its `types` if it is a union or an
\* intersection, its other children if not.
Printed(node) == IF node.kind \in {"UnionType", "IntersectionType"} THEN node.types ELSE node.kids

RECURSIVE RefersTo(_, _)
\* Whether `node` is, or has below it, a bare type reference of that name.
RefersTo(name, node) ==
    \/ IsReferenceTo(name, node)
    \/ \E i \in 1..Len(Printed(node)) : RefersTo(name, Printed(node)[i])

RECURSIVE Concat(_)
Concat(seqs) == IF seqs = <<>> THEN <<>> ELSE Head(seqs) \o Concat(Tail(seqs))

RootInstances == {call.objectGraph[i][2] : i \in 1..Len(call.objectGraph)}
RootNames == {call.objectGraph[i][1] : i \in 1..Len(call.objectGraph)}
\* The name an instance is registered under (the last, if under several).
NameOfRoot(z) ==
    LET last == CHOOSE i \in 1..Len(call.objectGraph) :
                    /\ call.objectGraph[i][2] = z
                    /\ \A j \in 1..Len(call.objectGraph) : call.objectGraph[j][2] = z => j <= i
    IN  call.objectGraph[last][1]

\* Whether two instances have the same structure: all but getType.
SameStructure(a, b) == [a EXCEPT !.getType = NoGetType] = [b EXCEPT !.getType = NoGetType]

\* C1: in zodToTsMultiple, wherever the mapper comes, below a root, upon an
\* instance that is registered as a root, it yields a type reference named by
\* that root, and the reference is part of the alias emitted.  An instance that
\* is not registered (and carried no getType) is not rendered as a reference to
\* a root that it merely has the structure of, nor, unless its kind hands on
\* its child's type (effects, default) or is a reference by itself (lazy,
\* date), as a reference to any root.
C1_SharedRootIsReferenced ==
    IsMultiple =>
        \A i \in 1..Len(out.results) :
            \A k \in 1..Len(out.results[i].visits) :
                LET v == out.results[i].visits[k]
                    unregistered ==
                        /\ v.id \notin RootInstances
                        /\ call.zods[v.id].getType = NoGetType
                        /\ v.status = "ok"
                IN  v.depth > 0 =>
                        /\ v.id \in RootInstances =>
                              /\ v.status = "ok"
                              /\ v.node = Reference(NameOfRoot(v.id))
                              /\ out.status = "ok" =>
                                    RefersTo(NameOfRoot(v.id), out.typeAliases[i].kids[1])
                        /\ (unregistered /\ v.zod.typeName \notin {"ZodLazy", "ZodDate"}) =>
                              \A x \in RootInstances :
                                  SameStructure(call.zods[x], v.zod) =>
                                      ~IsReferenceTo(NameOfRoot(x), v.node)
                        /\ (unregistered /\ v.zod.typeName \notin
                                {"ZodLazy", "ZodDate", "ZodEffects", "ZodDefault"}) =>
                              \A name \in RootNames : ~IsReferenceTo(name, v.node)

\* C1 witness: {A: 2, Identifier: 4} over SharedSchemas: the tuple's first
\* element is the reference A, its second the inline object type.
C1_Witness ==
    /\ IsMultiple
    /\ call.zods = SharedSchemas
    /\ call.objectGraph = << <<"A", 2>>, <<"Identifier", 4>> >>
    /\ out.status = "ok"
    /\ out.typeAliases[2].kids[1].kind = "TupleType"
    /\ out.typeAliases[2].kids[1].kids[1] = Reference("A")
    /\ out.typeAliases[2].kids[1].kids[2].kind = "TypeLiteral"
    /\ out.typeAliases[2].kids[1].kids[2] = out.typeAliases[1].kids[1]

\* Whether a child of z is z itself, or a lazy instance whose getter returns z.
HasSelfAsChild(h, z) ==
    \E i \in 1..Len(h[z].kids) :
        \/ h[z].kids[i] = z
        \/ h[h[z].kids[i]].typeName = "ZodLazy" /\ h[h[z].kids[i]].kids[1] = z

\* C2: zodToTsMultiple, given a root one of whose children is the root itself
\* (directly or through z.lazy), returns, and the alias of that root holds a
\* type reference to the root's own name.
C2_SelfReferenceResolves ==
    IsMultiple =>
        \A i \in 1..Len(call.objectGraph) :
            HasSelfAsChild(call.zods, call.objectGraph[i][2]) =>
                /\ out.status = "ok"
                /\ RefersTo(call.objectGraph[i][1], out.typeAliases[i].kids[1])

\* C3: zodToTsMultiple returns, for whatever mapping (an empty one included),
\* one alias per root, named by the root, in insertion order, and the stores of
\* the roots concatenated in that order.  (Calls that end in the RangeError of
\* C2 or the Error of C4 are left aside here.)
C3_EveryMappingReturns ==
    (IsMultiple /\ out.status \notin {"RangeError", "Error"}) =>
        /\ out.status = "ok"
        /\ Len(out.typeAliases) = Len(call.objectGraph)
        /\ \A i \in 1..Len(call.objectGraph) :
              /\ out.typeAliases[i].kind = "TypeAliasDeclaration"
              /\ out.typeAliases[i].text = call.objectGraph[i][1]
        /\ Len(out.results) = Len(call.objectGraph)
        /\ out.store = Concat([i \in 1..Len(out.results) |-> out.results[i].store])

\* Whether zodToTsNode returns an instance's getType result without looking at
\* its kind.
Overridden(zod) == zod.getType # NoGetType /\ zod.typeName # "ZodNativeEnum"

\* The instances zodToTsNode goes on to from instance n.
Below(h, n) ==
    IF Overridden(h[n]) THEN {}
    ELSE {mappedChildren(h, h[n])[i] : i \in 1..Len(mappedChildren(h, h[n]))}

RECURSIVE Closure(_, _)
Closure(h, set) ==
    LET more == set \cup UNION {Below(h, n) : n \in set}
    IN  IF more = set THEN set ELSE Closure(h, more)

\* The instances zodToTsNode comes upon, mapping z, if nothing stops it.
Reached(h, z) == Closure(h, {z})

\* Whether mapping z leads back to an instance being mapped.
Cyclic(h, z) == \E n \in Reached(h, z) : n \in Closure(h, Below(h, n))

\* A native enum whose getType returns something that is no Identifier.
Offending(zod) ==
    /\ zod.typeName = "ZodNativeEnum"
    /\ zod.getType.fn = "const"
    /\ zod.getType.result.kind # "Identifier"

ReturnsIdentifier(zod) ==
    \/ zod.getType.fn = "echo"
    \/ zod.getType.fn = "const" /\ zod.getType.result.kind = "Identifier"
ReturnedName(zod) ==
    IF zod.getType.fn = "echo" THEN PassedIdentifier ELSE zod.getType.result.text

\* The enum declaration of a native enum under a name.
DeclarationOf(zod, name) ==
    Node("EnumDeclaration", name,
         [i \in 1..Len(zod.values) |->
            Node("EnumMember", zod.values[i].key,
                 << Node(IF zod.values[i].type = "number" THEN "NumericLiteral"
                         ELSE "StringLiteral", zod.values[i].text, <<>>) >>)])

IsPrefix(s, t) == Len(s) <= Len(t) /\ SubSeq(t, 1, Len(s)) = s

\* The visits, in order, that add to the store.
DeclaringVisits(visits) ==
    SelectSeq(visits, LAMBDA v : v.zod.typeName = "ZodNativeEnum" /\ ReturnsIdentifier(v.zod))

\* C5: the store of a zodToTs call starts empty and only grows; what the call
\* returns holds one declaration for every visit to a native enum whose getType
\* returns an Identifier, in visit order, repeated visits repeated, if
\* resolveNativeEnums is set and nothing if not; a native enum without getType
\* maps to unknown and adds nothing.
C5_StoreHoldsOneDeclarationPerVisit ==
    IsSingle =>
        /\ out.visits[1].before = <<>>
        /\ \A k \in 1..Len(out.visits) :
              LET v == out.visits[k]
              IN  /\ IsPrefix(v.before, v.after)
                  /\ (v.zod.typeName = "ZodNativeEnum" /\ v.zod.getType = NoGetType) =>
                        /\ v.status = "ok"
                        /\ v.node = Node("UnknownKeyword", "", <<>>)
                        /\ v.after = v.before
        /\ out.status = "ok" =>
              out.store =
                  IF ResolvesNativeEnums
                  THEN [k \in 1..Len(DeclaringVisits(out.visits)) |->
                            DeclarationOf(DeclaringVisits(out.visits)[k].zod,
                                          ReturnedName(DeclaringVisits(out.visits)[k].zod))]
                  ELSE <<>>

\* C5 witness: one native enum instance, mapped twice, declared twice.
C5_Witness ==
    /\ IsSingle
    /\ out.status = "ok"
    /\ Len(out.store) = 2
    /\ out.store[1] = out.store[2]
    /\ Len(DeclaringVisits(out.visits)) = 2
    /\ DeclaringVisits(out.visits)[1].id = DeclaringVisits(out.visits)[2].id

\* What an instance's getType hands the mapper: an Identifier as a type
\* reference of its name, a type node as it is.
OverrideOf(zod) ==
    CASE zod.getType.fn = "echo" -> Reference(PassedIdentifier)
      [] zod.getType.result.kind = "Identifier" -> Reference(zod.getType.result.text)
      [] OTHER -> zod.getType.result

\* C6: a visit to an instance that carries getType and is no native enum
\* returns what getType returns, maps no child of the instance (the next visit,
\* if any, is not below it) and leaves the store as it found it.
C6_GetTypeTakesPrecedence ==
    \A history \in Histories :
        \A k \in 1..Len(history) :
            Overridden(history[k].zod) =>
                /\ history[k].status = "ok"
                /\ history[k].node = OverrideOf(history[k].zod)
                /\ history[k].after = history[k].before
                /\ k < Len(history) => history[k + 1].depth <= history[k].depth

\* C6 witness: a visit to an instance with getType and with children (a native
\* enum among them, which getType would have declared), other visits following.
C6_Witness ==
    \E history \in Histories :
        \E k \in 1..Len(history) :
            /\ Overridden(history[k].zod)
            /\ history[k].zod.typeName = "ZodTuple"
            /\ \E n \in Reached(call.zods, history[k].id) :
                  call.zods[n].typeName = "ZodNativeEnum"
            /\ k < Len(history)

\* The members of a union or intersection type.
Members(node) == IF node.kind \in {"UnionType", "IntersectionType"} THEN node.types ELSE <<>>

\* C7: the type of a ZodDefault is the type of its inner schema less the
\* members that are the undefined keyword: the other members stay, in order and
\* as they are (an undefined below a member stays too), and no member of the
\* result is the undefined keyword.
C7_DefaultStripsUndefinedMembers ==
    \A history \in Histories :
        \A k \in 1..Len(history) :
            ( /\ history[k].zod.typeName = "ZodDefault"
              /\ history[k].zod.getType = NoGetType
              /\ history[k].status = "ok" ) =>
                LET type == history[k].node
                    inner == history[k + 1].node
                IN  /\ history[k + 1].id = history[k].zod.kids[1]
                    /\ type.kind = inner.kind
                    /\ type.text = inner.text
                    /\ type.kids = inner.kids
                    /\ type.mod = inner.mod
                    /\ type.doc = inner.doc
                    /\ Members(type) =
                          SelectSeq(Members(inner), LAMBDA m : m.kind # "UndefinedKeyword")
                    /\ \A i \in 1..Len(Members(type)) : Members(type)[i].kind # "UndefinedKeyword"

\* C7 witness: the default of undefined | undefined[] | undefined is the union
\* of undefined[] alone.
C7_Witness ==
    \E history \in Histories :
        \E k \in 1..Len(history) :
            /\ history[k].zod.typeName = "ZodDefault"
            /\ history[k].zod.getType = NoGetType
            /\ history[k].status = "ok"
            /\ Len(Members(history[k + 1].node)) = 3
            /\ Len(Members(history[k].node)) = 1
            /\ Members(history[k].node)[1].kind = "ArrayType"
            /\ Members(history[k].node)[1].kids[1].kind = "UndefinedKeyword"

\* The getType zodToTsMultiple gives a root: a function returning the Identifier
\* of the name it is registered under.
GetTypeOfRoot(z) == constGetType(createIdentifier(NameOfRoot(z)))

\* Whether the latest call left all instances as they were, but for getType.
OnlyGetTypeChanged ==
    /\ Len(zods) = Len(call.zods)
    /\ \A z \in 1..Len(zods) : SameStructure(zods[z], call.zods[z])

\* Whether a visit of the latest call is to an instance below a root (or below
\* the schema given to zodToTs) that carried getType when the call was made.
VisitsEarlierGetType(v) ==
    /\ v.depth > 0
    /\ v.id \in 1..Len(call.zods)
    /\ call.zods[v.id].getType # NoGetType
    /\ v.zod.typeName # "ZodNativeEnum"

\* C8 (as amended): zodToTsMultiple, when it returns, has set the getType of
\* every root instance to return the Identifier of the name the root is
\* registered under in this call (the last, if under several), replacing any
\* getType the instance carried, and has changed no other instance's getType
\* and no instance's kind or payload; zodToTs changes no instance at all.  In a
\* later call an instance below the schema converted is rendered by the getType
\* an earlier call left on it if the later call is zodToTs or if the instance
\* is not a root of the later zodToTsMultiple; a root of the later call is
\* rendered by the name the later call registers it under.
C8_GetTypeIsSetOnRootsOnly ==
    /\ IsSingle => zods = call.zods
    /\ (IsMultiple /\ out.status = "ok") =>
          /\ OnlyGetTypeChanged
          /\ \A z \in 1..Len(zods) :
                zods[z].getType =
                    IF z \in RootInstances THEN GetTypeOfRoot(z) ELSE call.zods[z].getType
    /\ (IsSingle \/ IsMultiple) =>
          \A history \in Histories :
              \A k \in 1..Len(history) :
                  VisitsEarlierGetType(history[k]) =>
                      history[k].node =
                          IF IsMultiple /\ history[k].id \in RootInstances
                          THEN Reference(NameOfRoot(history[k].id))
                          ELSE OverrideOf(call.zods[history[k].id])

\* C8 witness: a second zodToTsMultiple, of which instance 2 is no root,
\* renders it by the name A that the first gave it.
C8_Witness ==
    /\ IsMultiple
    /\ out.status = "ok"
    /\ "A" \notin RootNames
    /\ 2 \notin RootInstances
    /\ call.zods[2].getType = constGetType(createIdentifier("A"))
    /\ zods[2].getType = call.zods[2].getType
    /\ \E history \in Histories :
          \E k \in 1..Len(history) :
              /\ history[k].id = 2
              /\ VisitsEarlierGetType(history[k])
              /\ history[k].node = Reference("A")

\* Whether a getType is one that a call of zodToTsMultiple installs (the caller
\* installs none that returns the Identifier of a root's name).
InstalledByZodToTsMultiple(getType) ==
    /\ getType.fn = "const"
    /\ getType.result.kind = "Identifier"
    /\ getType.result.text \in Names

\* C8 as the claim states it: the getType an earlier zodToTsMultiple installed
\* stays, so that any later call renders the instance as a reference to the
\* earlier name.
C8_EarlierNamesStay ==
    (IsSingle \/ IsMultiple) =>
        \A history \in Histories :
            \A k \in 1..Len(history) :
                ( /\ VisitsEarlierGetType(history[k])
                  /\ InstalledByZodToTsMultiple(call.zods[history[k].id].getType) ) =>
                    history[k].node = OverrideOf(call.zods[history[k].id])

\* C9: the body of the alias zodToTsMultiple emits for a root is never a bare
\* type reference to the root's own name.
C9_NeverSelfReference ==
    (IsMultiple /\ out.status = "ok") =>
        \A i \in 1..Len(out.typeAliases) :
            ~IsReferenceTo(call.objectGraph[i][1], out.typeAliases[i].kids[1])

\* The names the result of zodToTsMultiple declares: the aliases', then the
\* enum declarations'.
DeclaredNames ==
    [i \in 1..Len(out.typeAliases) |-> out.typeAliases[i].text]
        \o [i \in 1..Len(out.store) |-> out.store[i].text]

\* C10: the result of zodToTsMultiple (resolveNativeEnums set, no getType
\* given by the caller) declares no name twice, as alias or as enum.
C10_NoNameIsDeclaredTwice ==
    ( /\ IsMultiple
      /\ out.status = "ok"
      /\ ResolvesNativeEnums
      /\ \A z \in 1..Len(call.zods) : call.zods[z].getType = NoGetType ) =>
        \A i, j \in 1..Len(DeclaredNames) :
            DeclaredNames[i] = DeclaredNames[j] => i = j

====
